---- MODULE Spec2Model ----
(***************************************************************************)
(* State-machine model of sentry_sdk/hub.py: the per-context current Hub   *)
(* (ContextVar _local), the Hub's layer stack, the _ScopeManager guards,   *)
(* Hub activation (__enter__/__exit__) and capture routing.                *)
(*                                                                         *)
(* Every method of hub.py is one action.  Each context-local step of a     *)
(* method touches shared state (a Hub's lists) at most once, and CPython   *)
(* list append/pop/del are atomic, so interleaving whole methods yields    *)
(* the same reachable Hub states as interleaving their bytecodes.          *)
(***************************************************************************)
EXTENDS Integers, Sequences, FiniteSets, TLC

\* ------------------------------------------------------------------ bounds
MaxHubs == 3        \* Hub instances ever constructed (GLOBAL_HUB included)
MaxDepth == 3       \* layers on one Hub's stack
MaxGuards == 2      \* unreleased _ScopeManager objects, all Hubs together
MaxNest == 2        \* entries on the _old_hubs lists, all Hubs together
MaxCrumbs == 1      \* breadcrumbs a Scope keeps
MaxMonitors == 2    \* monitored extents open at once (nested)

\* --------------------------------------------------------------- constants
GLOBAL_HUB == 1     \* the Hub built at import time
NoHub == 0          \* _local.get(None) returning None
None == "None"      \* Python None as a client or an event id

Contexts == {"main", "w1", "w2"}   \* execution contexts (threads / tasks)
MainContext == "main"              \* the context that imports the module
NoContext == "-"
Clients == {"c1"}                  \* Client objects
EventIds == {"e1", "e2"}           \* ids a Scope capture routine may return

TagValues == {"t1", "t2"}          \* values the application gives a tag

Hubs == 1..MaxHubs
ScopeIds == 1..((MaxGuards + 1) * MaxDepth + 1)
PcIds == 1..(MaxHubs * MaxDepth + 1)   \* propagation contexts (trace ids)

VARIABLES
    slot,           \* _local: context -> Hub bound to it, or NoHub
    nHubs,          \* Hub objects constructed so far are 1..nHubs
    stack,          \* Hub._stack: Hub -> sequence of <<client, scope>>
    last_event_id,  \* Hub._last_event_id
    old_hubs,       \* Hub._old_hubs: Hub -> sequence of Hubs
    guards,         \* unreleased _ScopeManager objects, in creation order
    scopes,         \* the Scope objects on the stacks: Hub -> Scope -> fields
    last,           \* history: the operation just performed and its outcome
    acts,           \* history: per context, the activations not yet undone
    recent_id,      \* history: per Hub, id of the most recent non-transaction
                    \*   capture that returned an id
    monitors        \* the monitor() extents whose body is running, innermost
                    \*   last: the check_in_id each one holds

vars == <<slot, nHubs, stack, last_event_id, old_hubs, guards, scopes, last, acts,
          recent_id, monitors>>

\* ----------------------------------------------------------------- helpers
Top(s) == s[Len(s)]
Front(s) == SubSeq(s, 1, Len(s) - 1)
Exists(h) == h \in 1..nHubs

Range(s) == {s[i] : i \in 1..Len(s)}
RemoveAt(s, i) == SubSeq(s, 1, i - 1) \o SubSeq(s, i + 1, Len(s))

\* Scope objects are named per Hub: a Scope is created by the __init__ or
\* the push_scope of one Hub (a new object or a copy, never the argument
\* itself) and is stored only in that Hub's stack and in its guards.
\* UsedScopes(h) are the Scopes of Hub h that a live object still refers to;
\* a newly created Scope is identical to none of them.
UsedScopes(h) ==
    {stack[h][i][2] : i \in 1..Len(stack[h])}
    \cup UNION {{g.layer[2]} \cup {g.pre[i][2] : i \in 1..Len(g.pre)} :
                    g \in {x \in Range(guards) : x.hub = h}}

FreshScope(h) ==
    LET used == UsedScopes(h)
    IN  CHOOSE s \in ScopeIds : s \notin used /\ \A t \in 1..(s - 1) : t \in used

\* ------------------------------------------------------------ Scope objects
\* The fields of a Scope: its propagation context, one tag, the length of
\* its breadcrumb list.  NoScope stands for an object no stack holds.
NoScope == [pc |-> 0, tag |-> None, crumbs |-> 0]

\* the propagation contexts of the Scopes the stacks in stk hold
UsedPcs(heap, stk) ==
    {heap[h][stk[h][i][2]].pc : <<h, i>> \in {x \in Hubs \X (1..MaxDepth) : x[2] <= Len(stk[x[1]])}}

\* new trace and span identifiers: a propagation context no Scope has
FreshPc(heap, stk) ==
    LET used == UsedPcs(heap, stk)
    IN  CHOOSE p \in PcIds : p \notin used /\ \A q \in 1..(p - 1) : q \in used

\* Scope(): no tag, no breadcrumb, a propagation context of its own
NewScope(heap, stk) == [pc |-> FreshPc(heap, stk), tag |-> None, crumbs |-> 0]

\* copy.copy(scope): a new object whose fields hold the values of scope's
CopyScope(sc) == [pc |-> sc.pc, tag |-> sc.tag, crumbs |-> sc.crumbs]

\* Scope.generate_propagation_context()
GeneratePropagationContext(sc, heap, stk) == [sc EXCEPT !.pc = FreshPc(heap, stk)]

\* Scope.set_tag(key, value)
SetTagOn(sc, v) == [sc EXCEPT !.tag = v]

\* Scope.add_breadcrumb(crumb, hint): the list keeps at most MaxCrumbs
AddBreadcrumbOn(sc) ==
    [sc EXCEPT !.crumbs = IF @ < MaxCrumbs THEN @ + 1 ELSE MaxCrumbs]

\* the fields of the Scopes that the stacks in stk hold
Collected(heap, stk) ==
    [h \in Hubs |-> [s \in ScopeIds |->
        IF \E i \in 1..Len(stk[h]) : stk[h][i][2] = s THEN heap[h][s] ELSE NoScope]]

TopScope(h) == scopes[h][Top(stack[h])[2]]

\* the outcome record of an operation that returned None and logged nothing
Outcome(op, ctx, hub) ==
    [op |-> op, ctx |-> ctx, hub |-> hub, retHub |-> NoHub, retId |-> None,
     raised |-> "none", log |-> {}, called |-> FALSE, arg |-> None,
     copied |-> 0, made |-> 0,
     matched |-> FALSE, prior |-> NoHub, oldLen |-> 0, nested |-> FALSE,
     lifo |-> FALSE, pre |-> <<>>, skipped |-> FALSE, cut |-> FALSE,
     olen |-> 0, short |-> 0, ct |-> FALSE, scope |-> 0, given |-> NoScope, layer |-> 0,
     times |-> 0, interactive |-> FALSE, fault |-> "none"]

Raise(op, ctx, hub, exc) == [Outcome(op, ctx, hub) EXCEPT !.raised = exc]

\* --------------------------------------------------------------------- Init
\* hub.py:668-669: GLOBAL_HUB = Hub(); _local.set(GLOBAL_HUB) in the
\* importing context; every other context starts with an empty slot.
Init ==
    /\ slot = [c \in Contexts |-> IF c = MainContext THEN GLOBAL_HUB ELSE NoHub]
    /\ nHubs = 1
    /\ stack = [h \in Hubs |-> IF h = GLOBAL_HUB THEN <<<<None, 1>>>> ELSE <<>>]
    /\ last_event_id = [h \in Hubs |-> None]
    /\ old_hubs = [h \in Hubs |-> <<>>]
    /\ guards = <<>>
    /\ scopes = [h \in Hubs |-> [s \in ScopeIds |->
                    IF h = GLOBAL_HUB /\ s = 1
                    THEN [pc |-> 1, tag |-> None, crumbs |-> 0] ELSE NoScope]]
    /\ last = Outcome("import", MainContext, GLOBAL_HUB)
    /\ acts = [c \in Contexts |-> <<>>]
    /\ recent_id = [h \in Hubs |-> None]
    /\ monitors = <<>>

\* ------------------------------------------------- Hub.__init__ (194-211)
\* The single layer of a Hub built from client_or_hub (scope argument None):
\* from a Hub, that Hub's top client and a copy of its top scope; from a
\* client (or None), that client and a new Scope.
HubInitLayer(src, client) ==
    IF src # NoHub THEN <<Top(stack[src])[1], FreshScope(nHubs + 1)>>
    ELSE <<client, FreshScope(nHubs + 1)>>

\* hub._stack[-1] on a Hub whose stack is empty raises IndexError
HubInitRaises(src) == src # NoHub /\ stack[src] = <<>>

\* the Scope that copy.copy() is applied to, 0 when a new Scope() is built
HubInitCopied(src) == IF src # NoHub THEN Top(stack[src])[2] ELSE 0

\* the fields of that Scope
HubInitScope(src) ==
    IF src # NoHub THEN CopyScope(TopScope(src)) ELSE NewScope(scopes, stack)

\* Hub(client_or_hub) called by application code
HubNew(src, client) ==
    /\ src = NoHub \/ Exists(src)
    /\ src # NoHub => client = None
    /\ IF HubInitRaises(src)
       THEN /\ last' = Raise("Hub", NoContext, src, "IndexError")
            /\ UNCHANGED <<nHubs, stack, scopes>>
       ELSE /\ nHubs < MaxHubs
            /\ nHubs' = nHubs + 1
            /\ stack' = [stack EXCEPT ![nHubs + 1] = <<HubInitLayer(src, client)>>]
            /\ scopes' = [scopes EXCEPT ![nHubs + 1][FreshScope(nHubs + 1)] = HubInitScope(src)]
            /\ last' = [Outcome("Hub", NoContext, nHubs + 1) EXCEPT
                            !.retHub = nHubs + 1, !.copied = HubInitCopied(src),
                            !.made = FreshScope(nHubs + 1)]
    /\ UNCHANGED <<monitors, slot, last_event_id, old_hubs, guards, acts, recent_id>>

\* ------------------------------------------------ HubMeta.current (117-125)
CurrentCreates(c) == slot[c] = NoHub
CurrentRaises(c) == CurrentCreates(c) /\ HubInitRaises(GLOBAL_HUB)
CurrentHubIsGlobal(c) == IF CurrentCreates(c) THEN GLOBAL_HUB ELSE slot[c]
CurrentHub(c) == IF CurrentCreates(c) THEN nHubs + 1 ELSE slot[c]
StackAfterCurrent(c) ==
    IF CurrentCreates(c)
    THEN [stack EXCEPT ![nHubs + 1] = <<HubInitLayer(GLOBAL_HUB, None)>>]
    ELSE stack
ScopesAfterCurrent(c) ==
    IF CurrentCreates(c)
    THEN [scopes EXCEPT ![nHubs + 1][FreshScope(nHubs + 1)] = HubInitScope(GLOBAL_HUB)]
    ELSE scopes
NHubsAfterCurrent(c) == IF CurrentCreates(c) THEN nHubs + 1 ELSE nHubs
SlotAfterCurrent(c) == [slot EXCEPT ![c] = CurrentHub(c)]
CurrentPossible(c) == CurrentCreates(c) /\ ~CurrentRaises(c) => nHubs < MaxHubs

\* a read of Hub.current in context c
HubCurrent(c) ==
    /\ CurrentPossible(c)
    /\ IF CurrentRaises(c)
       THEN /\ last' = Raise("current", c, NoHub, "IndexError")
            /\ UNCHANGED <<slot, nHubs, stack, scopes>>
       ELSE /\ slot' = SlotAfterCurrent(c)
            /\ nHubs' = NHubsAfterCurrent(c)
            /\ stack' = StackAfterCurrent(c)
            /\ scopes' = ScopesAfterCurrent(c)
            /\ last' = [Outcome("current", c, CurrentHub(c)) EXCEPT
                            !.retHub = CurrentHub(c),
                            !.copied = IF CurrentCreates(c) THEN HubInitCopied(GLOBAL_HUB) ELSE 0,
                            !.made = IF CurrentCreates(c) THEN FreshScope(nHubs + 1) ELSE 0]
    /\ UNCHANGED <<monitors, last_event_id, old_hubs, guards, acts, recent_id>>

\* -------------------------------------------------- HubMeta.main (127-130)
HubMain(c) ==
    /\ last' = [Outcome("main", c, GLOBAL_HUB) EXCEPT !.retHub = GLOBAL_HUB]
    /\ UNCHANGED <<monitors, slot, nHubs, stack, last_event_id, old_hubs, guards, scopes, acts,
                   recent_id>>

\* ------------------------------------------------- Hub.__enter__ (213-216)
RECURSIVE EntriesUpTo(_)
EntriesUpTo(h) == IF h = 0 THEN 0 ELSE Len(old_hubs[h]) + EntriesUpTo(h - 1)
OpenActivations == EntriesUpTo(MaxHubs)

\* self._old_hubs.append(Hub.current); _local.set(self)
OldHubsAfterEnterSelf(c, h) == [old_hubs EXCEPT ![h] = Append(@, h)]
OldHubsAfterEnter(c, h) == [old_hubs EXCEPT ![h] = Append(@, CurrentHub(c))]
SlotAfterEnter(c, h) == [slot EXCEPT ![c] = h]

\* "with hub:" entered by application code (op "enter") or by Hub.run
Activate(c, h, op, run) ==
    /\ Exists(h)
    /\ CurrentPossible(c)
    /\ IF CurrentRaises(c)
       THEN /\ last' = Raise(op, c, h, "IndexError")
            /\ UNCHANGED <<slot, nHubs, stack, scopes, old_hubs, acts>>
       ELSE /\ OpenActivations < MaxNest
            /\ Len(acts[c]) < MaxNest
            /\ nHubs' = NHubsAfterCurrent(c)
            /\ stack' = StackAfterCurrent(c)
            /\ scopes' = ScopesAfterCurrent(c)
            /\ old_hubs' = OldHubsAfterEnter(c, h)
            /\ slot' = SlotAfterEnter(c, h)
            /\ acts' = [acts EXCEPT ![c] = Append(@,
                            [hub |-> h, prior |-> CurrentHub(c),
                             oldLen |-> Len(old_hubs[h]), nested |-> FALSE,
                             run |-> run])]
            /\ last' = [Outcome(op, c, h) EXCEPT !.retHub = h, !.times = IF run THEN 1 ELSE 0]
    /\ UNCHANGED <<monitors, last_event_id, guards, recent_id>>

HubEnter(c, h) == Activate(c, h, "enter", FALSE)

\* -------------------------------------------------- Hub.__exit__ (218-225)
\* old = self._old_hubs.pop(); _local.set(old)
ExitRaises(h) == old_hubs[h] = <<>>
OldHubsAfterExitKeeps(h) == old_hubs
OldHubsAfterExit(h) == [old_hubs EXCEPT ![h] = Front(@)]
SlotAfterExit(c, h) == [slot EXCEPT ![c] = Top(old_hubs[h])]

\* history: this exit undoes the innermost activation context c still has
\* open, and is the exit of the with statement that made it
Matches(c, h, run) == acts[c] # <<>> /\ Top(acts[c]).hub = h /\ Top(acts[c]).run = run

ActsAfterExit(c, h, run) ==
    IF Matches(c, h, run)
    THEN LET rest == Front(acts[c])
         IN  IF rest # <<>> /\ Top(rest).hub = h
             THEN [acts EXCEPT ![c] = [rest EXCEPT ![Len(rest)].nested = TRUE]]
             ELSE [acts EXCEPT ![c] = rest]
    ELSE [acts EXCEPT ![c] = <<>>]

\* the end of "with hub:"; exc is the exception that leaves the block
\* ("none" when it ends normally), res what Hub.run's callback returned
Deactivate(c, h, op, run, res, exc) ==
    /\ Exists(h)
    /\ IF ExitRaises(h)
       THEN /\ last' = [Raise(op, c, h, "IndexError") EXCEPT
                            !.matched = Matches(c, h, run)]
            /\ UNCHANGED <<slot, old_hubs>>
       ELSE /\ old_hubs' = OldHubsAfterExit(h)
            /\ slot' = SlotAfterExit(c, h)
            /\ last' = [Outcome(op, c, h) EXCEPT
                            !.raised = exc,
                            !.arg = res,
                            !.retId = IF exc = "none" THEN res ELSE None,
                            !.matched = Matches(c, h, run),
                            !.prior = IF Matches(c, h, run) THEN Top(acts[c]).prior ELSE NoHub,
                            !.oldLen = IF Matches(c, h, run) THEN Top(acts[c]).oldLen ELSE 0,
                            !.nested = Matches(c, h, run) /\ Top(acts[c]).nested]
    /\ acts' = ActsAfterExit(c, h, run)
    /\ UNCHANGED <<monitors, nHubs, stack, last_event_id, guards, scopes, recent_id>>

HubExit(c, h) == Deactivate(c, h, "exit", FALSE, None, "none")

\* ------------------------------------------------------ Hub.run (227-232)
\* with self: return callback().  RunBegin is run up to the call of the
\* callback; the callback's own operations are the steps that follow;
\* RunEnd is the callback returning res or raising, and the with statement
\* ending.
RunBegin(c, h) == Activate(c, h, "run_begin", TRUE)

RunEnd(c, h, res, raises) ==
    /\ acts[c] # <<>> /\ Top(acts[c]).run /\ Top(acts[c]).hub = h
    /\ Deactivate(c, h, "run", TRUE, res, IF raises THEN "callback" ELSE "none")

\* ------------------------------------------------ Hub.bind_client (260-263)
BoundStackAll(s, new) == [i \in 1..Len(s) |-> <<new, s[i][2]>>]
BoundStack(s, new) == [s EXCEPT ![Len(s)] = <<new, s[Len(s)][2]>>]

\* history: an operation outside the push/release protocol touched h's stack
Dirtied(h) == [i \in 1..Len(guards) |->
                 IF guards[i].hub = h
                 THEN [guards[i] EXCEPT !.clean = FALSE, !.pre = <<>>]
                 ELSE guards[i]]

BindClient(h, new) ==
    /\ Exists(h)
    /\ IF stack[h] = <<>>
       THEN /\ last' = Raise("bind_client", NoContext, h, "IndexError")
            /\ UNCHANGED <<stack, guards>>
       ELSE /\ stack' = [stack EXCEPT ![h] = BoundStack(@, new)]
            /\ guards' = Dirtied(h)
            /\ last' = [Outcome("bind_client", NoContext, h) EXCEPT !.arg = new]
    /\ UNCHANGED <<monitors, slot, nHubs, last_event_id, old_hubs, scopes, acts, recent_id>>

\* ------------------------------------------------------------ _init (85-94)
\* client = Client(...); Hub.current.bind_client(client)
InitTargetGlobal(c) == GLOBAL_HUB
InitTarget(c) == CurrentHub(c)

SdkInit(c, new) ==
    /\ new # None
    /\ CurrentPossible(c)
    /\ IF CurrentRaises(c)
       THEN /\ last' = Raise("init", c, NoHub, "IndexError")
            /\ UNCHANGED <<slot, nHubs, stack, guards, scopes>>
       ELSE /\ slot' = SlotAfterCurrent(c)
            /\ nHubs' = NHubsAfterCurrent(c)
            /\ scopes' = ScopesAfterCurrent(c)
            /\ IF StackAfterCurrent(c)[InitTarget(c)] = <<>>
               THEN /\ stack' = StackAfterCurrent(c)
                    /\ guards' = guards
                    /\ last' = Raise("init", c, CurrentHub(c), "IndexError")
               ELSE /\ stack' = [StackAfterCurrent(c) EXCEPT ![InitTarget(c)] = BoundStack(@, new)]
                    /\ guards' = Dirtied(InitTarget(c))
                    /\ last' = [Outcome("init", c, CurrentHub(c)) EXCEPT !.arg = new]
    /\ UNCHANGED <<monitors, last_event_id, old_hubs, acts, recent_id>>

\* ---------------------------------- Hub.capture_event / _message / _exception
\* rv is what the top Scope's capture routine returns (an id or None)
CaptureCallsScope(s) == Top(s)[1] # None
CaptureReturn(s, rv) == IF Top(s)[1] = None THEN None ELSE rv

\* capture_event (288-300)
EventIdAfterCaptureAnyEvent(cur, s, rv, is_transaction) ==
    IF Top(s)[1] = None THEN cur
    ELSE IF rv # None THEN rv ELSE cur

EventIdAfterCaptureEvent(cur, s, rv, is_transaction) ==
    IF Top(s)[1] = None THEN cur
    ELSE IF rv # None /\ ~is_transaction THEN rv ELSE cur

\* capture_message (327-338) and capture_exception (361-372)
EventIdAfterCaptureUnchecked(cur, s, rv) == IF rv # None THEN rv ELSE cur

EventIdAfterCapture(cur, s, rv) ==
    IF Top(s)[1] = None THEN cur
    ELSE IF rv # None THEN rv ELSE cur

\* history: the id of the most recent capture that was not a transaction
\* event and returned an id
RecentAfter(h, ret, is_transaction) ==
    IF ret # None /\ ~is_transaction THEN [recent_id EXCEPT ![h] = ret] ELSE recent_id

CaptureEvent(h, is_transaction, rv) ==
    /\ Exists(h)
    /\ IF stack[h] = <<>>
       THEN /\ last' = Raise("capture_event", NoContext, h, "IndexError")
            /\ UNCHANGED <<last_event_id, recent_id>>
       ELSE /\ last_event_id' = [last_event_id EXCEPT ![h] =
                    EventIdAfterCaptureEvent(@, stack[h], rv, is_transaction)]
            /\ recent_id' = RecentAfter(h, CaptureReturn(stack[h], rv), is_transaction)
            /\ last' = [Outcome("capture_event", NoContext, h) EXCEPT
                            !.arg = IF is_transaction THEN "transaction" ELSE "event",
                            !.retId = CaptureReturn(stack[h], rv),
                            !.called = CaptureCallsScope(stack[h])]
    /\ UNCHANGED <<monitors, slot, nHubs, stack, old_hubs, guards, scopes, acts>>

CaptureOther(op, h, rv) ==
    /\ Exists(h)
    /\ IF stack[h] = <<>>
       THEN /\ last' = Raise(op, NoContext, h, "IndexError")
            /\ UNCHANGED <<last_event_id, recent_id>>
       ELSE /\ last_event_id' = [last_event_id EXCEPT ![h] =
                    EventIdAfterCapture(@, stack[h], rv)]
            /\ recent_id' = RecentAfter(h, CaptureReturn(stack[h], rv), FALSE)
            /\ last' = [Outcome(op, NoContext, h) EXCEPT
                            !.retId = CaptureReturn(stack[h], rv),
                            !.called = CaptureCallsScope(stack[h])]
    /\ UNCHANGED <<monitors, slot, nHubs, stack, old_hubs, guards, scopes, acts>>

CaptureMessage(h, rv) == CaptureOther("capture_message", h, rv)
CaptureException(h, rv) == CaptureOther("capture_exception", h, rv)

\* ---------------------------------------------- Hub.add_breadcrumb (399-406)
AddBreadcrumb(h) ==
    /\ Exists(h)
    /\ last' = IF stack[h] = <<>>
               THEN Raise("add_breadcrumb", NoContext, h, "IndexError")
               ELSE IF Top(stack[h])[1] = None
               THEN [Outcome("add_breadcrumb", NoContext, h) EXCEPT !.log = {"dropped_breadcrumb"}]
               ELSE [Outcome("add_breadcrumb", NoContext, h) EXCEPT
                        !.called = TRUE, !.layer = Len(stack[h])]
    /\ scopes' = IF stack[h] # <<>> /\ Top(stack[h])[1] # None
                 THEN [scopes EXCEPT ![h][Top(stack[h])[2]] = AddBreadcrumbOn(@)]
                 ELSE scopes
    /\ UNCHANGED <<monitors, slot, nHubs, stack, last_event_id, old_hubs, guards, acts, recent_id>>

\* ------------------------------------------------------------ Scope.set_tag
\* application code sets a tag on the Scope of layer k of Hub h, a Scope it
\* got from push_scope or configure_scope
SetTag(h, k, v) ==
    /\ Exists(h)
    /\ k \in 1..Len(stack[h])
    /\ scopes' = [scopes EXCEPT ![h][stack[h][k][2]] = SetTagOn(@, v)]
    /\ last' = [Outcome("set_tag", NoContext, h) EXCEPT !.layer = k, !.arg = v]
    /\ UNCHANGED <<monitors, slot, nHubs, stack, last_event_id, old_hubs, guards, acts, recent_id>>

\* ------------------------------------------------------- Hub.flush (619-621)
Flush(h) ==
    /\ Exists(h)
    /\ last' = IF stack[h] = <<>>
               THEN Raise("flush", NoContext, h, "IndexError")
               ELSE [Outcome("flush", NoContext, h) EXCEPT !.called = Top(stack[h])[1] # None]
    /\ UNCHANGED <<monitors, slot, nHubs, stack, last_event_id, old_hubs, guards, scopes, acts,
                   recent_id>>

\* ------------------------------------------------ session methods (581-609)
\* start_session, end_session and stop_auto_session_tracking read the top
\* layer and call the Scope's method with client=client;
\* resume_auto_session_tracking reads the top Scope only and calls its
\* method with no argument.  The Scope owns the session state.
SessionOps == {"start_session", "end_session", "stop_auto_session_tracking",
               "resume_auto_session_tracking"}
Absent == "absent"      \* no client argument in the call

SessionClient(op, s) ==
    IF op = "resume_auto_session_tracking" THEN Absent ELSE Top(s)[1]

SessionOp(op, h) ==
    /\ op \in SessionOps
    /\ Exists(h)
    /\ last' = IF stack[h] = <<>>
               THEN Raise(op, NoContext, h, "IndexError")
               ELSE [Outcome(op, NoContext, h) EXCEPT
                        !.called = TRUE, !.times = 1,
                        !.scope = Top(stack[h])[2],
                        !.arg = SessionClient(op, stack[h]),
                        !.layer = Len(stack[h])]
    /\ UNCHANGED <<monitors, slot, nHubs, stack, last_event_id, old_hubs, guards, scopes, acts,
                   recent_id>>

\* ------------------ integrations/excepthook.py: sentry_sdk_excepthook (41-76)
\* What the bound client's get_integration(ExcepthookIntegration) returns:
\* no integration, one with always_run False (the default), one with
\* always_run True.
Installed == {None, "default", "always"}
\* where building or capturing the event fails inside the hook
Faults == {"none", "event_from_exception", "capture_event"}

\* Hub.get_integration (hub.py:234-245): None when no client is bound
GetIntegration(s, installed) == IF Top(s)[1] = None THEN None ELSE installed

\* _should_send (67-76); interactive is hasattr(sys, "ps1")
ShouldSend(always_run, interactive) ==
    IF always_run THEN TRUE
    ELSE IF interactive THEN FALSE
    ELSE TRUE

\* the condition at line 50
HookCaptures(s, installed, interactive) ==
    /\ GetIntegration(s, installed) # None
    /\ ShouldSend(GetIntegration(s, installed) = "always", interactive)

\* The hook called in context c.  Hub.current (47) and get_integration (48)
\* run before the capture_internal_exceptions block (54-60); the previous
\* hook is called last (62).
Excepthook(c, installed, interactive, fault, rv) ==
    /\ CurrentPossible(c)
    /\ IF CurrentRaises(c)
       THEN /\ last' = [Raise("excepthook", c, NoHub, "IndexError") EXCEPT
                            !.arg = installed, !.interactive = interactive,
                            !.fault = fault]
            /\ UNCHANGED <<slot, nHubs, stack, scopes, last_event_id, recent_id>>
       ELSE LET h == CurrentHub(c)
                stk == StackAfterCurrent(c)
            IN  /\ slot' = SlotAfterCurrent(c)
                /\ nHubs' = NHubsAfterCurrent(c)
                /\ stack' = stk
                /\ scopes' = ScopesAfterCurrent(c)
                /\ IF stk[h] = <<>>
                   THEN /\ last' = [Raise("excepthook", c, h, "IndexError") EXCEPT
                                        !.arg = installed, !.interactive = interactive,
                                        !.fault = fault]
                        /\ UNCHANGED <<last_event_id, recent_id>>
                   ELSE LET cap == HookCaptures(stk[h], installed, interactive)
                            done == cap /\ fault = "none"
                        IN  /\ last_event_id' =
                                    IF done
                                    THEN [last_event_id EXCEPT ![h] =
                                            EventIdAfterCaptureEvent(@, stk[h], rv, FALSE)]
                                    ELSE last_event_id
                            /\ recent_id' =
                                    IF done
                                    THEN RecentAfter(h, CaptureReturn(stk[h], rv), FALSE)
                                    ELSE recent_id
                            /\ last' = [Outcome("excepthook", c, h) EXCEPT
                                    !.arg = installed, !.interactive = interactive,
                                    !.fault = fault,
                                    !.called = cap,
                                    !.retId = IF done THEN CaptureReturn(stk[h], rv)
                                              ELSE None,
                                    !.log = IF cap /\ fault # "none"
                                            THEN {"internal_error"} ELSE {},
                                    !.times = 1]
    /\ UNCHANGED <<monitors, old_hubs, guards, acts>>

\* ------------------------------------- crons/decorator.py: monitor (13-69)
\* A monitored extent: capture_checkin(IN_PROGRESS) returns the check_in_id
\* (45-48), the body runs at the yield (50-51), and the extent ends by one
\* of three ways the body can end.  "Exception" is an exception of class
\* Exception; "BaseException" is one outside it (SystemExit,
\* KeyboardInterrupt, GeneratorExit), which `except Exception` (52) does not
\* catch.
BodyOutcomes == {"return", "Exception", "BaseException"}

MonitorEnter(id) ==
    /\ Len(monitors) < MaxMonitors
    /\ monitors' = Append(monitors, [check_in_id |-> id])
    /\ last' = [Outcome("monitor_enter", NoContext, NoHub) EXCEPT
                    !.log = {"in_progress"}, !.retId = id, !.times = 1]
    /\ UNCHANGED <<slot, nHubs, stack, last_event_id, old_hubs, guards, scopes, acts,
                   recent_id>>

\* the terminal check-ins the extent emits for a way the body ended
Terminal(body) ==
    CASE body = "return" -> {"ok"}
      [] body = "Exception" -> {"error"}
      [] OTHER -> {}

\* what leaves the extent: nothing after a normal return, the body's
\* exception otherwise (reraise(*exc_info), or the uncaught exception)
Reraised(body) == IF body = "return" THEN "none" ELSE body

MonitorExit(body) ==
    /\ monitors # <<>>
    /\ monitors' = Front(monitors)
    /\ last' = [Outcome("monitor_exit", NoContext, NoHub) EXCEPT
                    !.arg = body,
                    !.log = Terminal(body),
                    !.times = Cardinality(Terminal(body)),
                    !.retId = IF Terminal(body) = {} THEN None
                              ELSE Top(monitors).check_in_id,
                    !.raised = Reraised(body)]
    /\ UNCHANGED <<slot, nHubs, stack, last_event_id, old_hubs, guards, scopes, acts,
                   recent_id>>

\* --------------------------------------------- Hub.configure_scope (548-579)
\* callback is None (the context-manager form) or the tag value that the
\* callback sets on the Scope it is called with.
\* the top Scope after "if continue_trace: scope.generate_propagation_context()"
ConfiguredScope(h, continue_trace) ==
    IF continue_trace THEN GeneratePropagationContext(TopScope(h), scopes, stack)
    ELSE TopScope(h)

\* callback(scope) is called only with a client bound
ConfigureCallsAlways(h, callback) == callback # None
ConfigureCalls(h, callback) == callback # None /\ Top(stack[h])[1] # None

\* the Scope the callback is called with or the context manager yields:
\* the top Scope with a client bound; without one, no callback call and a
\* Scope() that no layer holds (written 0, reported in "made")
ConfigureGives(h, callback) ==
    IF Top(stack[h])[1] # None THEN Top(stack[h])[2] ELSE 0

ConfigureScope(h, continue_trace, callback) ==
    /\ Exists(h)
    /\ IF stack[h] = <<>>
       THEN /\ last' = Raise("configure_scope", NoContext, h, "IndexError")
            /\ UNCHANGED scopes
       ELSE /\ scopes' = [scopes EXCEPT ![h][Top(stack[h])[2]] =
                    IF ConfigureCalls(h, callback)
                    THEN SetTagOn(ConfiguredScope(h, continue_trace), callback)
                    ELSE ConfiguredScope(h, continue_trace)]
            /\ last' = [Outcome("configure_scope", NoContext, h) EXCEPT
                            !.called = Top(stack[h])[1] # None,
                            !.arg = callback, !.ct = continue_trace,
                            !.times = IF ConfigureCalls(h, callback) THEN 1 ELSE 0,
                            !.scope = ConfigureGives(h, callback),
                            !.made = IF callback = None /\ Top(stack[h])[1] = None
                                     THEN -1 ELSE 0,
                            !.layer = Len(stack[h])]
    /\ UNCHANGED <<monitors, slot, nHubs, stack, last_event_id, old_hubs, guards, acts, recent_id>>

\* -------------------------------------------------- Hub.push_scope (518-528)
\* new_layer = (client, copy.copy(scope)); self._stack.append(new_layer)
PushedLayerShared(h) == <<Top(stack[h])[1], Top(stack[h])[2]>>
PushedLayer(h) == <<Top(stack[h])[1], FreshScope(h)>>
PushedStack(h) == Append(stack[h], PushedLayer(h))

\* new_scope = copy.copy(scope); if continue_trace:
\* new_scope.generate_propagation_context()
PushedScopeAlwaysContinues(h, continue_trace) ==
    GeneratePropagationContext(CopyScope(TopScope(h)), scopes, stack)

PushedScope(h, continue_trace) ==
    IF continue_trace
    THEN GeneratePropagationContext(CopyScope(TopScope(h)), scopes, stack)
    ELSE CopyScope(TopScope(h))

\* the Scope objects once the new layer is appended
PushedScopes(h, continue_trace) ==
    [scopes EXCEPT ![h][FreshScope(h)] = PushedScope(h, continue_trace)]

\* _ScopeManager.__init__ (134-137), run after the append
NewGuard(h, s) ==
    [hub |-> h, original_len |-> Len(s), layer |-> Top(s),
     pre |-> stack[h], clean |-> TRUE, skipped |-> FALSE, cut |-> FALSE]

\* the guarded form: push_scope(continue_trace=...)
PushScope(h, continue_trace) ==
    /\ Exists(h)
    /\ IF stack[h] = <<>>
       THEN /\ last' = Raise("push_scope", NoContext, h, "IndexError")
            /\ UNCHANGED <<stack, guards, scopes>>
       ELSE /\ Len(stack[h]) < MaxDepth
            /\ Len(guards) < MaxGuards
            /\ stack' = [stack EXCEPT ![h] = PushedStack(h)]
            /\ guards' = Append(guards, NewGuard(h, PushedStack(h)))
            /\ scopes' = Collected(PushedScopes(h, continue_trace),
                                   [stack EXCEPT ![h] = PushedStack(h)])
            /\ last' = [Outcome("push_scope", NoContext, h) EXCEPT
                            !.copied = Top(stack[h])[2], !.made = FreshScope(h),
                            !.ct = continue_trace, !.layer = Len(stack[h]) + 1]
    /\ UNCHANGED <<monitors, slot, nHubs, last_event_id, old_hubs, acts, recent_id>>

\* -------------------------------------------- _ScopeManager.__exit__ (144-175)
PoppedTooSoon(s, g) == Len(s) < g.original_len

\* "Popped %s scopes too many": self._original_len - current_len
ShortfallFromPrePush(s, g) == (g.original_len - 1) - Len(s)
Shortfall(s, g) == g.original_len - Len(s)

\* del self._hub._stack[self._original_len - 1 :]
StackAfterReleaseOwnLayer(s, g) ==
    IF PoppedTooSoon(s, g) THEN s ELSE RemoveAt(s, g.original_len)

StackAfterReleaseKeepsLayer(s, g) ==
    IF PoppedTooSoon(s, g) THEN s ELSE SubSeq(s, 1, g.original_len)

StackAfterRelease(s, g) ==
    IF PoppedTooSoon(s, g) THEN s ELSE SubSeq(s, 1, g.original_len - 1)

ReleaseLogBoth(s, g) ==
    IF PoppedTooSoon(s, g) THEN {"popped_too_soon"}
    ELSE (IF Len(s) > g.original_len THEN {"leaked"} ELSE {})
         \cup (IF s[g.original_len][2] # g.layer[2] THEN {"wrong_scope"} ELSE {})
         \cup (IF s[g.original_len][1] # g.layer[1] THEN {"init_in_scope"} ELSE {})

ReleaseLogSilentTooSoon(s, g) ==
    IF PoppedTooSoon(s, g) THEN {}
    ELSE (IF Len(s) > g.original_len THEN {"leaked"} ELSE {})
         \cup (IF s[g.original_len][2] # g.layer[2] THEN {"wrong_scope"}
               ELSE IF s[g.original_len][1] # g.layer[1] THEN {"init_in_scope"}
               ELSE {})

ReleaseLog(s, g) ==
    IF PoppedTooSoon(s, g) THEN {"popped_too_soon"}
    ELSE (IF Len(s) > g.original_len THEN {"leaked"} ELSE {})
         \cup (IF s[g.original_len][2] # g.layer[2] THEN {"wrong_scope"}
               ELSE IF s[g.original_len][1] # g.layer[1] THEN {"init_in_scope"}
               ELSE {})

\* history: guard i is the most recently created unreleased guard of its Hub
Innermost(i) == \A j \in (i + 1)..Len(guards) : guards[j].hub # guards[i].hub

\* history: releasing guard i skips the unreleased guards its Hub created
\* after it
Skipping(i) == [j \in 1..Len(guards) |->
                  IF j > i /\ guards[j].hub = guards[i].hub
                  THEN [Dirtied(guards[i].hub)[j] EXCEPT !.skipped = TRUE]
                  ELSE Dirtied(guards[i].hub)[j]]

\* history: releasing guard i deletes the layer that guard gs[j] pushed
Cutting(i, gs) ==
    LET g == guards[i]
        s == stack[g.hub]
    IN  [j \in 1..Len(gs) |->
            IF /\ gs[j].hub = g.hub
               /\ ~PoppedTooSoon(s, g)
               /\ \E k \in g.original_len..Len(s) : s[k][2] = gs[j].layer[2]
            THEN [gs[j] EXCEPT !.cut = TRUE]
            ELSE gs[j]]

GuardsAfterRelease(i) ==
    RemoveAt(Cutting(i, IF Innermost(i) THEN guards ELSE Skipping(i)), i)

ReleaseGuard(i) ==
    /\ i \in 1..Len(guards)
    /\ LET g == guards[i]
       IN  /\ stack' = [stack EXCEPT ![g.hub] = StackAfterRelease(@, g)]
           /\ last' = [Outcome("release", NoContext, g.hub) EXCEPT
                           !.log = ReleaseLog(stack[g.hub], g),
                           !.lifo = g.clean /\ Innermost(i),
                           !.skipped = g.skipped, !.cut = g.cut,
                           !.olen = g.original_len, !.scope = g.layer[2],
                           !.arg = g.layer[1],
                           !.short = IF PoppedTooSoon(stack[g.hub], g)
                                     THEN Shortfall(stack[g.hub], g) ELSE 0,
                           !.pre = IF g.clean /\ Innermost(i) THEN g.pre ELSE <<>>]
    /\ guards' = GuardsAfterRelease(i)
    /\ scopes' = Collected(scopes, [stack EXCEPT ![guards[i].hub] =
                                        StackAfterRelease(@, guards[i])])
    /\ UNCHANGED <<monitors, slot, nHubs, last_event_id, old_hubs, acts, recent_id>>

\* ------------------------------- Hub.push_scope, the callback form (514-517)
\* with self.push_scope() as scope: callback(scope).  The callback sets a
\* tag on the Scope it is given and returns or raises; the with statement
\* releases the guard either way.  The inner call passes no continue_trace,
\* so the layer is pushed with the default, True.
CallbackContinueTrace(continue_trace) == TRUE

\* the stack while the callback runs, and the guard of the with statement
CallbackStack(h) == PushedStack(h)
CallbackGuard(h) == NewGuard(h, CallbackStack(h))

PushScopeCallback(h, continue_trace, v, raises) ==
    /\ Exists(h)
    /\ IF stack[h] = <<>>
       THEN /\ last' = Raise("push_scope_callback", NoContext, h, "IndexError")
            /\ UNCHANGED <<stack, scopes>>
       ELSE /\ stack' = [stack EXCEPT ![h] =
                            StackAfterRelease(CallbackStack(h), CallbackGuard(h))]
            /\ scopes' = Collected(
                    [PushedScopes(h, CallbackContinueTrace(continue_trace))
                        EXCEPT ![h][FreshScope(h)] = SetTagOn(@, v)],
                    [stack EXCEPT ![h] =
                        StackAfterRelease(CallbackStack(h), CallbackGuard(h))])
            /\ last' = [Outcome("push_scope_callback", NoContext, h) EXCEPT
                            !.raised = IF raises THEN "callback" ELSE "none",
                            !.log = ReleaseLog(CallbackStack(h), CallbackGuard(h)),
                            !.ct = continue_trace, !.arg = v,
                            !.copied = Top(stack[h])[2],
                            !.made = FreshScope(h),
                            !.times = 1,
                            !.scope = Top(CallbackStack(h))[2],
                            !.given = PushedScope(h, CallbackContinueTrace(continue_trace)),
                            !.layer = Len(CallbackStack(h))]
    /\ UNCHANGED <<monitors, slot, nHubs, last_event_id, old_hubs, guards, acts, recent_id>>

\* -------------------------------------------- Hub.pop_scope_unsafe (536-538)
\* rv = self._stack.pop(); assert self._stack
PopScopeUnsafe(h) ==
    /\ Exists(h)
    /\ IF stack[h] = <<>>
       THEN /\ last' = Raise("pop_scope_unsafe", NoContext, h, "IndexError")
            /\ UNCHANGED <<stack, guards, scopes>>
       ELSE /\ stack' = [stack EXCEPT ![h] = Front(@)]
            /\ guards' = Dirtied(h)
            /\ scopes' = Collected(scopes, [stack EXCEPT ![h] = Front(@)])
            /\ last' = IF Front(stack[h]) = <<>>
                       THEN Raise("pop_scope_unsafe", NoContext, h, "AssertionError")
                       ELSE Outcome("pop_scope_unsafe", NoContext, h)
    /\ UNCHANGED <<monitors, slot, nHubs, last_event_id, old_hubs, acts, recent_id>>

\* --------------------------------------------------------------------- Next
Ids == EventIds \cup {None}
MaybeClient == Clients \cup {None}

\* every operation, on every Hub, from every context
Next ==
    \/ \E c \in Contexts : HubCurrent(c)
    \/ \E c \in Contexts : HubMain(c)
    \/ \E src \in Hubs \cup {NoHub}, cl \in MaybeClient : HubNew(src, cl)
    \/ \E c \in Contexts, h \in Hubs : HubEnter(c, h)
    \/ \E c \in Contexts, h \in Hubs : HubExit(c, h)
    \/ \E c \in Contexts, h \in Hubs : RunBegin(c, h)
    \/ \E c \in Contexts, h \in Hubs, res \in Ids, raises \in BOOLEAN :
            RunEnd(c, h, res, raises)
    \/ \E h \in Hubs, cl \in MaybeClient : BindClient(h, cl)
    \/ \E c \in Contexts, cl \in Clients : SdkInit(c, cl)
    \/ \E h \in Hubs, t \in BOOLEAN, rv \in Ids : CaptureEvent(h, t, rv)
    \/ \E h \in Hubs, rv \in Ids : CaptureMessage(h, rv)
    \/ \E h \in Hubs, rv \in Ids : CaptureException(h, rv)
    \/ \E h \in Hubs : AddBreadcrumb(h)
    \/ \E h \in Hubs : Flush(h)
    \/ \E h \in Hubs, ct \in BOOLEAN, cb \in TagValues \cup {None} : ConfigureScope(h, ct, cb)
    \/ \E h \in Hubs, ct \in BOOLEAN : PushScope(h, ct)
    \/ \E i \in 1..MaxGuards : ReleaseGuard(i)
    \/ \E h \in Hubs : PopScopeUnsafe(h)
    \/ \E h \in Hubs, k \in 1..MaxDepth, v \in TagValues : SetTag(h, k, v)
    \/ \E h \in Hubs, ct \in BOOLEAN, v \in TagValues, r \in BOOLEAN :
            PushScopeCallback(h, ct, v, r)
    \/ \E h \in Hubs, op \in SessionOps : SessionOp(op, h)
    \/ \E c \in Contexts, i \in Installed, a \in BOOLEAN, f \in Faults, rv \in Ids :
            Excepthook(c, i, a, f, rv)
    \/ \E id \in EventIds : MonitorEnter(id)
    \/ \E body \in BodyOutcomes : MonitorExit(body)

Spec == Init /\ [][Next]_vars

(***************************************************************************)
(* The state space of Spec is the product of the Hubs' stacks, the guards, *)
(* the contexts' slots and the undo stacks.  The properties are checked    *)
(* under the specifications below: each has the same Init and the same     *)
(* actions, and restricts who calls what.                                  *)
(***************************************************************************)

\* One Hub: the importing context works on its current Hub, GLOBAL_HUB,
\* with every stack and capture operation.
NextHub ==
    \/ \E cl \in MaybeClient : BindClient(GLOBAL_HUB, cl)
    \/ \E cl \in Clients : SdkInit(MainContext, cl)
    \/ \E t \in BOOLEAN, rv \in Ids : CaptureEvent(GLOBAL_HUB, t, rv)
    \/ \E rv \in Ids : CaptureMessage(GLOBAL_HUB, rv)
    \/ \E rv \in Ids : CaptureException(GLOBAL_HUB, rv)
    \/ AddBreadcrumb(GLOBAL_HUB)
    \/ Flush(GLOBAL_HUB)
    \/ ConfigureScope(GLOBAL_HUB, FALSE, None)
    \/ PushScope(GLOBAL_HUB, TRUE)
    \/ \E i \in 1..MaxGuards : ReleaseGuard(i)
    \/ PopScopeUnsafe(GLOBAL_HUB)
    \/ HubEnter(MainContext, GLOBAL_HUB)
    \/ HubExit(MainContext, GLOBAL_HUB)

SpecHub == Init /\ [][NextHub]_vars

\* Two contexts that start with an empty slot share one Hub instance:
\* both activate and deactivate Hub.main.
Workers == Contexts \ {MainContext}

NextShare ==
    \/ \E c \in Workers : HubCurrent(c)
    \/ \E c \in Workers : HubEnter(c, GLOBAL_HUB)
    \/ \E c \in Workers : HubExit(c, GLOBAL_HUB)

SpecShare == Init /\ [][NextShare]_vars

\* Contexts with an empty slot read Hub.current and Hub.main while the
\* importing context pushes, pops and binds on GLOBAL_HUB.
NextCurrent ==
    \/ \E c \in Workers : HubCurrent(c)
    \/ \E c \in Contexts : HubMain(c)
    \/ \E cl \in MaybeClient : BindClient(GLOBAL_HUB, cl)
    \/ PushScope(GLOBAL_HUB, FALSE)
    \/ \E i \in 1..MaxGuards : ReleaseGuard(i)
    \/ PopScopeUnsafe(GLOBAL_HUB)

SpecCurrent == Init /\ [][NextCurrent]_vars

\* Two contexts, the importing one and one with an empty slot, each work on
\* the Hubs that exist: GLOBAL_HUB and the Hub Hub.current creates.
FrameContexts == {MainContext, "w1"}

NextFrame ==
    \/ \E c \in FrameContexts : HubCurrent(c)
    \/ \E c \in FrameContexts, cl \in Clients : SdkInit(c, cl)
    \/ \E h \in Hubs, cl \in MaybeClient : BindClient(h, cl)
    \/ \E h \in Hubs, rv \in {"e1", None} : CaptureMessage(h, rv)
    \/ \E h \in Hubs : ConfigureScope(h, FALSE, None)
    \/ \E h \in Hubs : PushScope(h, FALSE)
    \/ \E i \in 1..MaxGuards : ReleaseGuard(i)
    \/ \E h \in Hubs : PopScopeUnsafe(h)

SpecFrame == Init /\ [][NextFrame]_vars

\* One context activates and deactivates the Hubs that exist and, through
\* its current Hub, pushes and releases scopes, binds clients and captures.
One == "w1"

NextOne ==
    \/ HubCurrent(One)
    \/ \E h \in Hubs : HubEnter(One, h)
    \/ \E h \in Hubs : HubExit(One, h)
    \/ \E cl \in Clients : BindClient(slot[One], cl)
    \/ CaptureMessage(slot[One], "e1")
    \/ PushScope(slot[One], FALSE)
    \/ \E i \in 1..MaxGuards : ReleaseGuard(i)

SpecOne == Init /\ [][NextOne]_vars

\* One context calls Hub.run on the Hubs that exist; the callbacks activate
\* and deactivate Hubs, call Hub.run again, return or raise.
NextRun ==
    \/ HubCurrent(One)
    \/ \E h \in Hubs : RunBegin(One, h)
    \/ \E h \in Hubs, res \in Ids, raises \in BOOLEAN : RunEnd(One, h, res, raises)
    \/ \E h \in Hubs : HubEnter(One, h)
    \/ \E h \in Hubs : HubExit(One, h)
    \/ \E cl \in Clients : BindClient(slot[One], cl)
    \/ PushScope(slot[One], FALSE)
    \/ \E i \in 1..MaxGuards : ReleaseGuard(i)

SpecRun == Init /\ [][NextRun]_vars

\* The session methods of one Hub, between pushes, releases, client
\* bindings and captures.
NextSession ==
    \/ \E op \in SessionOps : SessionOp(op, GLOBAL_HUB)
    \/ \E cl \in MaybeClient : BindClient(GLOBAL_HUB, cl)
    \/ PushScope(GLOBAL_HUB, FALSE)
    \/ \E i \in 1..MaxGuards : ReleaseGuard(i)
    \/ CaptureMessage(GLOBAL_HUB, "e1")

SpecSession == Init /\ [][NextSession]_vars

\* Monitored extents, nested, whose bodies capture and push scopes.
NextMonitor ==
    \/ \E id \in EventIds : MonitorEnter(id)
    \/ \E body \in BodyOutcomes : MonitorExit(body)
    \/ \E cl \in MaybeClient : BindClient(GLOBAL_HUB, cl)
    \/ \E rv \in Ids : CaptureException(GLOBAL_HUB, rv)
    \/ PushScope(GLOBAL_HUB, FALSE)
    \/ \E i \in 1..MaxGuards : ReleaseGuard(i)

SpecMonitor == Init /\ [][NextMonitor]_vars

\* The excepthook called in the importing context and in one worker, with
\* the process-wide Hub's stack pushed and popped in between.
NextExcepthook ==
    \/ \E c \in {MainContext, One}, i \in Installed, a \in BOOLEAN, f \in Faults :
            Excepthook(c, i, a, f, "e1")
    \/ \E cl \in MaybeClient : BindClient(GLOBAL_HUB, cl)
    \/ PushScope(GLOBAL_HUB, FALSE)
    \/ PopScopeUnsafe(GLOBAL_HUB)

SpecExcepthook == Init /\ [][NextExcepthook]_vars

\* The Scopes of one Hub: the importing context pushes scopes on GLOBAL_HUB
\* in both forms and with both values of continue_trace, configures the top
\* Scope in both forms and binds clients.
NextScope ==
    \/ \E cl \in MaybeClient : BindClient(GLOBAL_HUB, cl)
    \/ \E ct \in BOOLEAN : PushScope(GLOBAL_HUB, ct)
    \/ \E ct \in BOOLEAN, r \in BOOLEAN : PushScopeCallback(GLOBAL_HUB, ct, "t1", r)
    \/ \E i \in 1..MaxGuards : ReleaseGuard(i)
    \/ \E ct \in BOOLEAN, cb \in {"t1", None} : ConfigureScope(GLOBAL_HUB, ct, cb)

SpecScope == Init /\ [][NextScope]_vars

\* The Scopes of two Hubs: GLOBAL_HUB and the Hub that Hub.current creates
\* from it for another context; on both, scopes are pushed and released,
\* tags set and breadcrumbs added.
IsolateHubs == {GLOBAL_HUB, 2}

NextIsolate ==
    \/ HubCurrent(One)
    \/ \E cl \in Clients : SdkInit(MainContext, cl)
    \/ \E h \in IsolateHubs : PushScope(h, FALSE)
    \/ \E i \in 1..MaxGuards : ReleaseGuard(i)
    \/ \E h \in IsolateHubs, k \in 1..MaxDepth : SetTag(h, k, "t1")
    \/ \E h \in IsolateHubs : AddBreadcrumb(h)

SpecIsolate == Init /\ [][NextIsolate]_vars

(***************************************************************************)
(*                              Properties                                 *)
(***************************************************************************)
CaptureOps == {"capture_event", "capture_message", "capture_exception"}
StackOrCaptureOps ==
    {"push_scope", "release", "pop_scope_unsafe", "bind_client", "configure_scope"}
    \cup CaptureOps

\* C1 (SpecHub): when a guard is released after only push_scope calls and
\* in-order releases of the guards pushed after it happened on its Hub, the
\* Hub's stack is again the stack it was before that guard's push_scope:
\* the same depth, the same layers in the same order.
C1_LifoRestoresStack ==
    last.op = "release" /\ last.lifo =>
        /\ last.raised = "none"
        /\ stack[last.hub] = last.pre
        /\ Len(stack[last.hub]) = Len(last.pre)

\* two nested pushes, the inner guard just released, the outer one pending
C1_Witness ==
    /\ last.op = "release" /\ last.lifo
    /\ Len(stack[last.hub]) = 2
    /\ stack[last.hub] = last.pre
    /\ \E i \in 1..Len(guards) : guards[i].hub = last.hub /\ guards[i].clean

\* C2 (SpecHub): in every reachable state every Hub's layer stack holds at
\* least one layer.
C2_StackNeverEmpty == \A h \in 1..nHubs : stack[h] # <<>>

\* C3 (SpecHub): no stack, capture or activation operation ends by raising.
C3_NothingRaises == last.raised = "none"

\* C4 (SpecOne): in one context, the deactivation that undoes an activation
\* of Hub H rebinds the slot to the Hub that was current before that
\* activation and leaves H's undo stack at the length it had before it,
\* whatever ran in between; so two nested activations followed by two
\* deactivations restore the Hub current before the first.
C4_NestedActivationRestores ==
    last.op = "exit" /\ last.matched =>
        /\ last.raised = "none"
        /\ slot[last.ctx] = last.prior
        /\ Len(old_hubs[last.hub]) = last.oldLen

\* the outer deactivation of a Hub that was activated twice, nested, from a
\* context whose current Hub was another Hub
C4_Witness ==
    /\ last.op = "exit" /\ last.matched /\ last.nested
    /\ last.prior # last.hub
    /\ slot[last.ctx] = last.prior
    /\ Len(old_hubs[last.hub]) = last.oldLen

\* C5 (SpecShare): when two contexts activate the same Hub and their
\* activations overlap, each deactivation rebinds the calling context's slot
\* to the Hub that was current in that context before its own activation.
C5_EachActivationBalanced ==
    last.op = "exit" /\ last.matched =>
        last.raised = "none" /\ slot[last.ctx] = last.prior

\* C6 (SpecCurrent): Hub.current returns the Hub bound to the calling
\* context; with an empty slot it creates a Hub of depth 1 holding
\* GLOBAL_HUB's top client and a new copy of GLOBAL_HUB's top scope, binds
\* and returns it; no two contexts receive the same Hub; Hub.main returns
\* GLOBAL_HUB.
C6_CurrentAndMain ==
    /\ last.op = "current" =>
        /\ last.raised = "none"
        /\ last.retHub # NoHub
        /\ last.retHub = slot[last.ctx]
        /\ last.made # 0 =>
            /\ last.retHub # GLOBAL_HUB
            /\ stack[last.retHub] = <<<<Top(stack[GLOBAL_HUB])[1], last.made>>>>
            /\ last.copied = Top(stack[GLOBAL_HUB])[2]
            /\ \A c \in Contexts \ {last.ctx} : slot[c] # last.retHub
    /\ last.op = "main" => last.retHub = GLOBAL_HUB
    /\ \A c \in Workers : \A d \in Contexts \ {c} :
            slot[c] # NoHub => slot[c] # slot[d]

\* C7 (SpecFrame): the Hub created for a context with an empty slot is a
\* Hub of its own, neither GLOBAL_HUB nor another context's Hub, and an
\* operation on one Hub changes the layer stack and the last_event_id of no
\* other Hub.
C7_HubsIndependent ==
    [][/\ \A h \in Hubs : h # last'.hub =>
            stack'[h] = stack[h] /\ last_event_id'[h] = last_event_id[h]
       /\ \A c \in Workers : slot'[c] # NoHub =>
            /\ slot'[c] # GLOBAL_HUB
            /\ \A d \in Contexts \ {c} : slot'[d] # slot'[c]]_vars

\* a client bound on the created Hub while GLOBAL_HUB, two layers deep,
\* keeps its own clients
C7_Witness ==
    /\ last.op = "bind_client" /\ last.arg # None
    /\ last.hub = slot["w1"] /\ last.hub # GLOBAL_HUB
    /\ Len(stack[GLOBAL_HUB]) = 2 /\ Len(stack[last.hub]) = 2
    /\ Top(stack[GLOBAL_HUB])[1] = None

\* C8 as stated (SpecFrame): once a client is bound on GLOBAL_HUB, no stack
\* or capture operation that a context performs through its current Hub
\* changes GLOBAL_HUB's layer stack or last_event_id.
C8_GlobalHubReadOnly ==
    [][/\ last'.op \in StackOrCaptureOps
       /\ \E c \in Contexts : slot[c] = last'.hub
       /\ stack[GLOBAL_HUB] # <<>> /\ stack[GLOBAL_HUB][1][1] # None
       => /\ stack'[GLOBAL_HUB] = stack[GLOBAL_HUB]
          /\ last_event_id'[GLOBAL_HUB] = last_event_id[GLOBAL_HUB]]_vars

\* C8 amended (SpecFrame): an operation on a Hub other than GLOBAL_HUB
\* changes neither GLOBAL_HUB's layer stack nor its last_event_id, and the
\* Hub created for a context with an empty slot is never GLOBAL_HUB.
C8_OtherHubsLeaveGlobal ==
    [][/\ last'.hub # GLOBAL_HUB =>
            /\ stack'[GLOBAL_HUB] = stack[GLOBAL_HUB]
            /\ last_event_id'[GLOBAL_HUB] = last_event_id[GLOBAL_HUB]
       /\ \A c \in Contexts : slot[c] = NoHub /\ slot'[c] # NoHub =>
            slot'[c] # GLOBAL_HUB]_vars

\* a capture on the created Hub returned an id; GLOBAL_HUB, with a client
\* bound, still has no last_event_id
C8_Witness ==
    /\ last.op = "capture_message" /\ last.retId # None
    /\ last.hub # GLOBAL_HUB /\ last.hub = slot["w1"]
    /\ stack[GLOBAL_HUB] # <<>> /\ stack[GLOBAL_HUB][1][1] # None
    /\ last_event_id[GLOBAL_HUB] = None

\* C9 (SpecHub): a capture on a Hub whose top layer has no client returns
\* no id, does not call the scope's capture routine and changes neither
\* last_event_id nor the stack.
C9_NoClientNoCapture ==
    [][/\ last'.op \in CaptureOps
       /\ stack[last'.hub] # <<>>
       /\ Top(stack[last'.hub])[1] = None
       => /\ last'.raised = "none"
          /\ last'.retId = None
          /\ ~last'.called
          /\ last_event_id' = last_event_id
          /\ stack' = stack]_vars

\* no client on the top layer, a client on the base layer, an earlier id kept
C9_Witness ==
    /\ last.op \in CaptureOps /\ last.raised = "none"
    /\ Len(stack[last.hub]) >= 2
    /\ Top(stack[last.hub])[1] = None
    /\ stack[last.hub][1][1] # None
    /\ last.retId = None /\ ~last.called
    /\ last_event_id[last.hub] # None

\* C10 (SpecHub): a Hub's last_event_id is the id returned by its most
\* recent capture that was not a transaction event and returned an id, and
\* no operation other than a capture changes it.
C10_LastEventId ==
    [][/\ \A h \in 1..nHubs : last_event_id'[h] = recent_id'[h]
       /\ last'.op \notin CaptureOps => last_event_id' = last_event_id]_vars

\* a transaction event returned an id and the earlier, different id is kept
C10_Witness ==
    /\ last.op = "capture_event" /\ last.arg = "transaction"
    /\ last.retId # None
    /\ last_event_id[last.hub] # None
    /\ last_event_id[last.hub] # last.retId

\* C11 as stated (SpecHub): after a guard was released while guards pushed
\* after it were unreleased, every later release of one of the skipped guards
\* logs a diagnostic, raises nothing, changes no layer below that guard's
\* pre-push depth and leaves the stack with at least one layer.
C11_SkippedGuardRelease ==
    [][last'.op = "release" /\ last'.skipped =>
        /\ last'.raised = "none"
        /\ last'.log # {}
        /\ \A k \in 1..(last'.olen - 1) :
                k <= Len(stack[last'.hub]) =>
                    k <= Len(stack'[last'.hub])
                    /\ stack'[last'.hub][k] = stack[last'.hub][k]
        /\ stack'[last'.hub] # <<>>]_vars

\* C11 amended (SpecHub): the release of a guard whose own layer was deleted
\* by the release of another guard logs "popped too soon" or "wrong scope",
\* raises nothing, changes no layer below that guard's pre-push depth and
\* never removes the first layer of the stack.
C11_CutGuardRelease ==
    [][last'.op = "release" /\ last'.cut =>
        /\ last'.raised = "none"
        /\ last'.log \cap {"popped_too_soon", "wrong_scope"} # {}
        /\ \A k \in 1..(last'.olen - 1) :
                k <= Len(stack[last'.hub]) =>
                    k <= Len(stack'[last'.hub])
                    /\ stack'[last'.hub][k] = stack[last'.hub][k]
        /\ stack[last'.hub] # <<>> =>
                /\ stack'[last'.hub] # <<>>
                /\ stack'[last'.hub][1] = stack[last'.hub][1]]_vars

\* two nested pushes, the outer guard released first, then the inner one:
\* "popped too soon", the base layer alone left
C11_Witness ==
    /\ last.op = "release" /\ last.cut /\ last.olen = 3
    /\ last.log = {"popped_too_soon"}
    /\ Len(stack[last.hub]) = 1
    /\ guards = <<>>

\* the propagation context of the Scope that layer k of Hub h holds
PcOf(heap, stk, h, k) == heap[h][stk[h][k][2]].pc

\* C12 (SpecScope): push_scope with continue_trace=True gives the pushed
\* scope a propagation context different from the parent scope's, with
\* continue_trace=False it gives it the parent's propagation context, and
\* either way the parent scope keeps the propagation context it had.
C12_PushPropagationContext ==
    [][last'.op = "push_scope" /\ last'.raised = "none" =>
        LET h == last'.hub
            n == Len(stack[h])
        IN  /\ Len(stack'[h]) = n + 1
            /\ stack'[h][n] = stack[h][n]
            /\ stack'[h][n + 1][2] # stack[h][n][2]
            /\ last'.ct => PcOf(scopes', stack', h, n + 1) # PcOf(scopes, stack, h, n)
            /\ ~last'.ct => PcOf(scopes', stack', h, n + 1) = PcOf(scopes, stack, h, n)
            /\ PcOf(scopes', stack', h, n) = PcOf(scopes, stack, h, n)]_vars

\* a scope pushed with continue_trace=True on a scope that was pushed with
\* continue_trace=False: layers 1 and 2 share a propagation context, layer 3
\* has its own
C12_Witness ==
    /\ last.op = "push_scope" /\ last.raised = "none" /\ last.ct
    /\ Len(stack[last.hub]) = 3
    /\ PcOf(scopes, stack, last.hub, 1) = PcOf(scopes, stack, last.hub, 2)
    /\ PcOf(scopes, stack, last.hub, 3) # PcOf(scopes, stack, last.hub, 2)

\* the tag and the breadcrumbs of the Scope that layer k of Hub h holds
FieldsOf(heap, stk, h, k) == <<heap[h][stk[h][k][2]].tag, heap[h][stk[h][k][2]].crumbs>>

\* C13 (SpecIsolate): setting a tag or adding a breadcrumb on the Scope of
\* one layer changes the tag and the breadcrumbs of no other layer's Scope,
\* neither the parent's nor the child's on the same Hub, nor those of
\* another Hub (GLOBAL_HUB's top scope and the scope of a Hub created from
\* it); the Scope it is applied to does change.
C13_ScopeIsolation ==
    [][last'.op \in {"set_tag", "add_breadcrumb"} /\ last'.layer # 0 =>
        /\ stack' = stack
        /\ last'.op = "set_tag" =>
                FieldsOf(scopes', stack', last'.hub, last'.layer)[1] = last'.arg
        /\ \A h \in Hubs : \A k \in 1..Len(stack[h]) :
                <<h, k>> # <<last'.hub, last'.layer>> =>
                    FieldsOf(scopes', stack', h, k) = FieldsOf(scopes, stack, h, k)]_vars

\* a tag set on a pushed scope of the created Hub, whose parent scope has
\* none, while GLOBAL_HUB's top scope, set after the Hub was created, has
\* one and a breadcrumb too
C13_Witness ==
    /\ last.op = "set_tag" /\ last.hub = 2 /\ last.layer = 2
    /\ Len(stack[2]) = 2
    /\ FieldsOf(scopes, stack, 2, 2) = <<"t1", 0>>
    /\ FieldsOf(scopes, stack, 2, 1) = <<None, 0>>
    /\ FieldsOf(scopes, stack, GLOBAL_HUB, Len(stack[GLOBAL_HUB])) = <<"t1", 1>>

\* C14 (SpecScope): push_scope with a callback pushes one layer as the
\* guarded push_scope with the same continue_trace would (a new Scope with
\* the parent's fields, the parent's propagation context kept exactly when
\* continue_trace is False), calls the callback once with that Scope while
\* its layer is on top, and releases the guard: the stack afterwards is the
\* stack before, also when the callback raises.
C14_CallbackFormEquivalent ==
    [][last'.op = "push_scope_callback" /\ last'.raised \in {"none", "callback"} =>
        LET h == last'.hub
            n == Len(stack[h])
            parent == scopes[h][stack[h][n][2]]
        IN  /\ last'.times = 1
            /\ last'.layer = n + 1
            /\ last'.scope \notin {stack[h][k][2] : k \in 1..n}
            /\ last'.given.tag = parent.tag /\ last'.given.crumbs = parent.crumbs
            /\ last'.ct => last'.given.pc # parent.pc
            /\ ~last'.ct => last'.given.pc = parent.pc
            /\ last'.log = {}
            /\ stack'[h] = stack[h]]_vars

\* C15 (SpecRun): Hub.run(callback) makes the Hub the calling context's
\* current Hub and calls the callback once; when run ends, the callback
\* having returned or raised, the context's current Hub is the one that was
\* current before the call, the Hub's undo stack has the length it had, and
\* run returns what the callback returned or lets its exception pass.
C15_RunRestores ==
    /\ last.op = "run_begin" /\ last.raised = "none" =>
            slot[last.ctx] = last.hub /\ last.times = 1
    /\ last.op = "run" /\ last.matched =>
        /\ last.raised \in {"none", "callback"}
        /\ slot[last.ctx] = last.prior
        /\ Len(old_hubs[last.hub]) = last.oldLen
        /\ last.raised = "none" => last.retId = last.arg

\* a callback that raised inside run on a Hub that was not the current one,
\* itself called from a callback of run on that Hub
C15_Witness ==
    /\ last.op = "run" /\ last.matched /\ last.raised = "callback"
    /\ last.prior # last.hub
    /\ slot[last.ctx] = last.prior
    /\ acts[last.ctx] # <<>> /\ Top(acts[last.ctx]).run

C17_TooSoonBelowPrePush ==
    [][last'.op = "release" =>
        LET cur == Len(stack[last'.hub])
            prepush == last'.olen - 1
        IN  /\ ("popped_too_soon" \in last'.log /\ stack' = stack) <=> cur < prepush
            /\ "popped_too_soon" \in last'.log => last'.short = prepush - cur]_vars

\* C17 amended (SpecHub): a guard release logs "popped too soon" and leaves
\* the stack as it is exactly when the current depth is less than the depth
\* right after the guard's push, that is, at most its pre-push depth; the
\* shortfall it reports is the depth right after the push minus the current
\* depth; every other release removes a layer.
C17_TooSoonBelowPushed ==
    [][last'.op = "release" =>
        LET cur == Len(stack[last'.hub])
            prepush == last'.olen - 1
        IN  /\ ("popped_too_soon" \in last'.log /\ stack' = stack) <=> cur <= prepush
            /\ "popped_too_soon" \in last'.log =>
                    last'.short = prepush + 1 - cur /\ last'.log = {"popped_too_soon"}
            /\ cur > prepush => stack' # stack]_vars

\* a release at exactly the guard's pre-push depth: its layer was popped by
\* hand, one scope too many
C17_Witness ==
    /\ last.op = "release" /\ last.log = {"popped_too_soon"}
    /\ Len(stack[last.hub]) = last.olen - 1
    /\ last.short = 1

Min(a, b) == IF a < b THEN a ELSE b

\* C18 (SpecHub): a guard released while the stack is deeper than it was
\* right after that guard's push logs the leak warning and removes the
\* layer at the guard's position with every layer above it, leaving the
\* stack at the guard's pre-push depth; after any guard release the depth
\* is the smaller of the depth before and the guard's pre-push depth, the
\* layers that remain are unchanged and the guard's Scope is on no layer.
C18_ReleaseHealsLeaks ==
    [][last'.op = "release" =>
        LET h == last'.hub
            cur == Len(stack[h])
            prepush == last'.olen - 1
        IN  /\ last'.raised = "none"
            /\ "leaked" \in last'.log <=> cur > prepush + 1
            /\ cur > prepush + 1 => stack'[h] = SubSeq(stack[h], 1, prepush)
            /\ Len(stack'[h]) = Min(cur, prepush)
            /\ \A k \in 1..Len(stack'[h]) : stack'[h][k] = stack[h][k]
            /\ \A k \in 1..Len(stack'[h]) : stack'[h][k][2] # last'.scope
            /\ \A g \in Hubs \ {h} : stack'[g] = stack[g]]_vars

\* the outer of two guards released first: a leak of one scope, two layers
\* removed, the base layer left, the inner guard still unreleased
C18_Witness ==
    /\ last.op = "release" /\ "leaked" \in last.log /\ last.olen = 2
    /\ Len(stack[last.hub]) = 1
    /\ \E i \in 1..Len(guards) : guards[i].hub = last.hub /\ guards[i].original_len = 3

\* C19 (SpecHub): a guard release that removes layers logs "wrong scope"
\* exactly when the Scope of the layer at the guard's position is not the
\* Scope recorded at push time, and the client warning exactly when it is
\* that Scope and the layer's client is not the client recorded at push
\* time; never both; a release that removes only the guard's own layer,
\* its client unchanged, logs nothing.
C19_ReleaseDiagnostics ==
    [][last'.op = "release" /\ stack' # stack =>
        LET h == last'.hub
            found == stack[h][last'.olen]
        IN  /\ "wrong_scope" \in last'.log <=> found[2] # last'.scope
            /\ "init_in_scope" \in last'.log <=>
                    found[2] = last'.scope /\ found[1] # last'.arg
            /\ ~({"wrong_scope", "init_in_scope"} \subseteq last'.log)
            /\ Len(stack[h]) = last'.olen /\ found = <<last'.arg, last'.scope>>
                    => last'.log = {}]_vars

\* a client bound on the pushed layer before its guard was released: the
\* client warning alone, the base layer still without a client
C19_Witness ==
    /\ last.op = "release" /\ last.log = {"init_in_scope"}
    /\ last.arg = None
    /\ Len(stack[last.hub]) = 1 /\ stack[last.hub][1][1] = None

\* C20 (SpecHub): bind_client(c) replaces the client of the top layer only:
\* afterwards the top layer holds c and the Scope it held, the depth is the
\* same, every lower layer, last_event_id, the undo stack and the Scopes'
\* fields are unchanged.
C20_BindClientTopOnly ==
    [][last'.op = "bind_client" /\ last'.raised = "none" =>
        LET h == last'.hub
            n == Len(stack[h])
        IN  /\ Len(stack'[h]) = n
            /\ stack'[h][n] = <<last'.arg, stack[h][n][2]>>
            /\ \A k \in 1..(n - 1) : stack'[h][k] = stack[h][k]
            /\ \A g \in Hubs \ {h} : stack'[g] = stack[g]
            /\ last_event_id' = last_event_id
            /\ old_hubs' = old_hubs
            /\ scopes' = scopes
            /\ slot' = slot]_vars

\* a client bound on the second layer of an activated Hub that has a
\* last_event_id: the base layer still has no client
C20_Witness ==
    /\ last.op = "bind_client" /\ last.raised = "none" /\ last.arg # None
    /\ Len(stack[last.hub]) = 2
    /\ Top(stack[last.hub])[1] = last.arg
    /\ stack[last.hub][1][1] = None
    /\ last_event_id[last.hub] # None
    /\ old_hubs[last.hub] # <<>>

\* C21 (SpecSession): each of start_session, end_session,
\* stop_auto_session_tracking and resume_auto_session_tracking calls the
\* corresponding method of the top-of-stack Scope once, supplying the
\* top-of-stack client, and changes neither the stack nor last_event_id.
C21_SessionDelegates ==
    [][last'.op \in SessionOps /\ last'.raised = "none" =>
        /\ last'.times = 1
        /\ last'.scope = Top(stack[last'.hub])[2]
        /\ last'.arg = Top(stack[last'.hub])[1]
        /\ stack' = stack
        /\ last_event_id' = last_event_id]_vars

\* C22 (SpecMonitor): a monitored extent emits IN_PROGRESS before its body
\* and, when the body ends, exactly one terminal check-in carrying the id
\* the IN_PROGRESS check-in returned: OK after a normal return, ERROR after
\* the body raised, and then the body's exception leaves the extent.
C22_MonitorCheckins ==
    [][/\ last'.op = "monitor_enter" =>
            /\ last'.log = {"in_progress"}
            /\ monitors' = Append(monitors, [check_in_id |-> last'.retId])
       /\ last'.op = "monitor_exit" =>
            /\ last'.times = 1
            /\ last'.retId = Top(monitors).check_in_id
            /\ last'.log = IF last'.arg = "return" THEN {"ok"} ELSE {"error"}
            /\ last'.raised = IF last'.arg = "return" THEN "none" ELSE last'.arg
            /\ monitors' = Front(monitors)]_vars

\* C23 (SpecExcepthook): the installed excepthook always calls the previous
\* hook exactly once and raises nothing itself; it captures on the calling
\* context's current Hub only when that Hub has the integration and
\* always_run is set or the interpreter is not interactive; a fault while
\* building or capturing the event is logged and suppressed.
C23_ExcepthookChains ==
    [][last'.op = "excepthook" =>
        /\ last'.times = 1
        /\ last'.raised = "none"
        /\ slot'[last'.ctx] = last'.hub
        /\ last'.called =>
                /\ Top(stack'[last'.hub])[1] # None
                /\ last'.arg # None
                /\ last'.arg = "always" \/ ~last'.interactive
        /\ last'.called /\ last'.fault # "none" =>
                /\ last'.log = {"internal_error"}
                /\ last_event_id' = last_event_id]_vars

\* C24 (SpecHub): a client bound while a pushed Scope is on top is bound to
\* the pushed layer only.  bind_client leaves the clients of the layers
\* below as they are; when the guard of that Scope is released with its
\* own layer on top and a client other than the recorded one on it, the
\* layer is removed and the top client is again the client the parent
\* layer had at the push; a capture is routed by the client on top at the
\* time of the capture.
C24_BindInsideScopeUndone ==
    [][/\ last'.op = "bind_client" /\ last'.raised = "none" =>
            \A k \in 1..(Len(stack[last'.hub]) - 1) :
                stack'[last'.hub][k][1] = stack[last'.hub][k][1]
       /\ last'.op = "release" /\ last'.log = {"init_in_scope"} =>
            LET h == last'.hub
            IN  /\ Len(stack'[h]) = last'.olen - 1
                /\ stack'[h] = SubSeq(stack[h], 1, last'.olen - 1)
                /\ Top(stack'[h])[1] = last'.arg
                /\ Top(stack'[h])[1] # stack[h][last'.olen][1]
       /\ last'.op \in CaptureOps /\ last'.raised = "none" =>
            /\ last'.called = (Top(stack[last'.hub])[1] # None)
            /\ ~last'.called => last'.retId = None]_vars

\* a guard released after c1 was bound inside its Scope: the Hub is back
\* on the parent layer, which has no client
C24_Witness ==
    /\ last.op = "release" /\ last.log = {"init_in_scope"}
    /\ last.arg = None
    /\ Len(stack[last.hub]) = 1
    /\ Top(stack[last.hub])[1] = None

====
